---- MODULE Spec2Model ----
(***************************************************************************)
(* Model of the /tts backend (BackendCode/Server.py, ImageCaption.py,      *)
(* TextToVoice.py): concurrent requests, the shared directories "temp" and *)
(* "output", and the background tasks that run after each response.        *)
(*                                                                         *)
(* Every request is handled in its own worker thread (tts_endpoint is a    *)
(* plain def, FastAPI runs it in the thread pool).  The tasks a request    *)
(* adds to BackgroundTasks run, in the order added, after its response has *)
(* been sent; a task that raises ends the run of the remaining tasks.      *)
(* A file named by uuid4 is identified with the request that created it.   *)
(* File system calls follow POSIX semantics.                               *)
(***************************************************************************)
EXTENDS Naturals, FiniteSets, Sequences, TLC

\* ---- bounds ------------------------------------------------------------
NumReqs == 2        \* number of requests that arrive
MaxDelete == 2      \* SpecDelete: calls of delete_file on one path

Reqs == 1..NumReqs
NeverCreated == NumReqs + 1   \* a path of "output" no request ever created
Paths == Reqs \cup {NeverCreated}

\* ---- values ------------------------------------------------------------
NoKey == "<absent>"
Fallback == "Error While Reading The Image"
Caption == "a caption"
Urls == {"ok", "unreachable", "notimage", "inferfail"}

\* The JSON bodies that reach tts_endpoint: image requests with and without
\* a URL, text requests and requests of another type with and without a
\* text, and a text request that also carries a URL.
Payloads ==
    [type : {"image"}, imageUrl : Urls \cup {NoKey}, text : {NoKey}]
    \cup [type : {"text", "other"}, imageUrl : {NoKey}, text : {NoKey, "hello"}]
    \cup [type : {"text"}, imageUrl : {"ok"}, text : {"hello"}]
NoData == [type |-> NoKey, imageUrl |-> NoKey, text |-> NoKey]
NoText == "<unset>"

VARIABLES
    tempDir,    \* the directory "temp" exists
    tempFiles,  \* owners of the files present in "temp"
    outDir,     \* the directory "output" exists
    outFiles,   \* paths of the files present in "output"
    pc,         \* position of each request's thread
    data,       \* tts_endpoint's argument; once it has returned, the type
    text,       \* tts_endpoint's local text, while the endpoint runs
    bgtasks,    \* the request's BackgroundTasks queue
    listing,    \* entries shutil.rmtree has scanned and not yet unlinked
    status,     \* what the client got: "pending", "200" (audio), "500"
    exc,        \* the exception raised in the request's thread, if any
    delCount    \* number of delete_file calls made on each path

vars == <<tempDir, tempFiles, outDir, outFiles, pc, data, text, bgtasks,
          listing, status, exc, delCount>>

storage == <<tempDir, tempFiles, outDir, outFiles>>

\* ---- pure helpers ------------------------------------------------------
\* os.remove(path) on a directory holding `files`.
os_remove(path, files) ==
    IF path \in files
    THEN [files |-> files \ {path}, err |-> "none"]
    ELSE [files |-> files, err |-> "FileNotFoundError"]

\* delete_file without its try/except.
delete_file_unguarded(path, files) == os_remove(path, files)

\* delete_file that removes every file of the directory.
delete_file_all(path, files) == [files |-> {}, err |-> "none"]

\* delete_file that removes nothing.
delete_file_noop(path, files) == [files |-> files, err |-> "none"]

\* delete_file(path): os.remove inside try / bare except: pass.
delete_file(path, files) ==
    [files |-> os_remove(path, files).files, err |-> "none"]

\* The tasks tts_endpoint adds, in order (lines 50-51).
ScheduledTasks == <<"delete_file", "clearTempFolder">>

\* data.get("text", "")
GetText(d) == IF d.text = NoKey THEN "" ELSE d.text

\* Where the task runner goes once the head task has ended normally.
AfterTask(q) == IF Tail(q) = <<>> THEN "done" ELSE "bg"

\* A test that sends every request with a URL to getCaption.
IsImageTypeByUrl(d) == d.type = "image" \/ d.imageUrl # NoKey

\* Line 38: req_type == "image"
IsImageType(d) == d.type = "image"

Set(r, f, v) == [f EXCEPT ![r] = v]

\* ---- Init --------------------------------------------------------------
InitLocals ==
    /\ pc = [r \in Reqs |-> "idle"]
    /\ data = [r \in Reqs |-> NoData]
    /\ text = [r \in Reqs |-> NoText]
    /\ bgtasks = [r \in Reqs |-> <<>>]
    /\ listing = [r \in Reqs |-> {}]
    /\ status = [r \in Reqs |-> "pending"]
    /\ exc = [r \in Reqs |-> "none"]
    /\ delCount = [p \in Paths |-> 0]

\* Process start: nothing in the code creates "temp" or "output" before the
\* first request, so either may be missing; both are empty.
Init ==
    /\ tempDir \in BOOLEAN
    /\ tempFiles = {}
    /\ outDir \in BOOLEAN
    /\ outFiles = {}
    /\ InitLocals

\* Process start with both directories present.
InitWarm ==
    /\ tempDir = TRUE
    /\ tempFiles = {}
    /\ outDir = TRUE
    /\ outFiles = {}
    /\ InitLocals

\* ---- tts_endpoint ------------------------------------------------------
\* Lines 33-42: classify the request.  data["imageUrl"] raises KeyError when
\* the key is missing; any type other than "image" takes the text branch.
Receive(r) ==
    /\ pc[r] = "idle"
    /\ \E d \in Payloads :
        /\ data' = Set(r, data, d)
        /\ IF IsImageType(d)
           THEN IF d.imageUrl = NoKey
                THEN /\ pc' = Set(r, pc, "raised")
                     /\ exc' = Set(r, exc, "KeyError")
                     /\ text' = Set(r, text, NoText)
                ELSE /\ pc' = Set(r, pc, "download")
                     /\ text' = Set(r, text, "Failed to Read")
                     /\ exc' = exc
           ELSE /\ pc' = Set(r, pc, "synth")
                /\ text' = Set(r, text, GetText(d))
                /\ exc' = exc
    /\ UNCHANGED <<storage, bgtasks, listing, status, delCount>>

\* tts_endpoint is left (by return or by an exception): its locals are gone.
\* Of the request body the type stays on record.
Return(r) ==
    /\ data' = Set(r, data, [NoData EXCEPT !.type = data[r].type])
    /\ text' = Set(r, text, NoText)

\* getCaption that returns without the fallback string: the text stays what
\* tts_endpoint set before the call.
CaptionKeepsDefault(r) ==
    /\ text' = text
    /\ pc' = Set(r, pc, "synth")

\* getCaption's except branch (lines 33-36): the fallback string is returned
\* and tts_endpoint goes on to synthesis.
CaptionFallback(r) ==
    /\ text' = Set(r, text, Fallback)
    /\ pc' = Set(r, pc, "synth")

\* getCaption line 20: requests.get(image_path).content
Download(r) ==
    /\ pc[r] = "download"
    /\ IF data[r].imageUrl = "unreachable"
       THEN CaptionFallback(r)
       ELSE /\ pc' = Set(r, pc, "stage_write")
            /\ text' = text
    /\ UNCHANGED <<storage, data, bgtasks, listing, status, exc, delCount>>

\* getCaption lines 21-23: open("temp/<uuid>.wav", "wb") and write.  open
\* raises FileNotFoundError when "temp" does not exist.
StageWrite(r) ==
    /\ pc[r] = "stage_write"
    /\ IF tempDir
       THEN /\ tempFiles' = tempFiles \cup {r}
            /\ pc' = Set(r, pc, "stage_read")
            /\ text' = text
       ELSE /\ CaptionFallback(r)
            /\ tempFiles' = tempFiles
    /\ UNCHANGED <<tempDir, outDir, outFiles, data, bgtasks, listing, status,
                   exc, delCount>>

\* getCaption lines 25-32: Image.open(filename), the model, the decoded
\* caption.  Image.open raises when the file is gone or is no image;
\* generate raises for "inferfail".
StageRead(r) ==
    /\ pc[r] = "stage_read"
    /\ IF r \in tempFiles /\ data[r].imageUrl = "ok"
       THEN /\ text' = Set(r, text, Caption)
            /\ pc' = Set(r, pc, "synth")
       ELSE CaptionFallback(r)
    /\ UNCHANGED <<storage, data, bgtasks, listing, status, exc, delCount>>

\* Lines 44-48: "output" is created, the file name is drawn and the thread
\* enters textToWav on the shared synthesizer.  No lock is taken: nothing
\* makes it wait for another thread that is inside textToWav.
SynthBegin(r) ==
    /\ pc[r] = "synth"
    /\ outDir' = TRUE
    /\ pc' = Set(r, pc, "tts")
    /\ UNCHANGED <<tempDir, tempFiles, outFiles, data, text, bgtasks, listing,
                   status, exc, delCount>>

\* Lines 48-53 when textToWav returns: the wav file is written, the two
\* tasks are added and the FileResponse is returned.
SynthOk(r) ==
    /\ pc[r] = "tts"
    /\ outDir' = outDir
    /\ outFiles' = outFiles \cup {r}
    /\ bgtasks' = Set(r, bgtasks, ScheduledTasks)
    /\ pc' = Set(r, pc, "respond")
    /\ Return(r)
    /\ UNCHANGED <<tempDir, tempFiles, listing, status, exc, delCount>>

\* Line 48 when textToWav raises: synthesizer.tts raises (no file), or
\* save_wav raises (the file may have been created).  Nothing in
\* tts_endpoint catches the exception, which leaves it.
SynthRaise(r) ==
    /\ pc[r] = "tts"
    /\ outDir' = outDir
    /\ \E partial \in BOOLEAN :
        outFiles' = IF partial THEN outFiles \cup {r} ELSE outFiles
    /\ exc' = Set(r, exc, "SynthesisError")
    /\ pc' = Set(r, pc, "raised")
    /\ Return(r)
    /\ UNCHANGED <<tempDir, tempFiles, bgtasks, listing, status, delCount>>

\* tts_endpoint that catches the exception and speaks the fallback instead.
PropagateRetry(r) ==
    /\ pc[r] = "raised"
    /\ pc' = Set(r, pc, "synth")
    /\ text' = Set(r, text, Fallback)
    /\ exc' = Set(r, exc, "none")
    /\ UNCHANGED <<storage, data, bgtasks, listing, status, delCount>>

\* An exception has left tts_endpoint: the framework answers 500.  No task
\* was added, none runs.
Propagate(r) ==
    /\ pc[r] = "raised"
    /\ pc' = Set(r, pc, "failed")
    /\ status' = Set(r, status, "500")
    /\ UNCHANGED <<storage, data, text, bgtasks, listing, exc, delCount>>

\* Line 53, FileResponse: the file is read and sent to the client; a missing
\* file is a RuntimeError and no task runs.
Respond(r) ==
    /\ pc[r] = "respond"
    /\ IF r \in outFiles
       THEN /\ status' = Set(r, status, "200")
            /\ pc' = Set(r, pc, "bg")
            /\ UNCHANGED <<exc, bgtasks>>
       ELSE /\ status' = Set(r, status, "500")
            /\ exc' = Set(r, exc, "RuntimeError")
            /\ pc' = Set(r, pc, "failed")
            /\ bgtasks' = Set(r, bgtasks, <<>>)
    /\ UNCHANGED <<storage, data, text, listing, delCount>>

\* ---- background tasks --------------------------------------------------
\* A task ends by raising: the error leaves the task, the rest do not run.
TaskRaises(r, e) ==
    /\ exc' = Set(r, exc, e)
    /\ bgtasks' = Set(r, bgtasks, Tail(bgtasks[r]))
    /\ pc' = Set(r, pc, "done")

\* A task ends normally.
TaskReturns(r) ==
    /\ bgtasks' = Set(r, bgtasks, Tail(bgtasks[r]))
    /\ pc' = Set(r, pc, AfterTask(bgtasks[r]))
    /\ exc' = exc

\* bgtasks.add_task(delete_file, filename), lines 26-30 and 50.
RunDeleteFile(r) ==
    /\ pc[r] = "bg"
    /\ bgtasks[r] # <<>>
    /\ Head(bgtasks[r]) = "delete_file"
    /\ LET res == delete_file(r, outFiles) IN
        /\ outFiles' = res.files
        /\ IF res.err = "none" THEN TaskReturns(r) ELSE TaskRaises(r, res.err)
    /\ delCount' = [delCount EXCEPT ![r] = @ + 1]
    /\ UNCHANGED <<tempDir, tempFiles, outDir, data, text, listing, status>>

\* clearTempFolder line 22: os.path.exists("temp")
ClearExists(r) ==
    /\ pc[r] = "bg"
    /\ bgtasks[r] # <<>>
    /\ Head(bgtasks[r]) = "clearTempFolder"
    /\ pc' = Set(r, pc, IF tempDir THEN "rmtree_scan" ELSE "makedirs")
    /\ UNCHANGED <<storage, data, text, bgtasks, listing, status, exc,
                   delCount>>

\* clearTempFolder line 23, shutil.rmtree: list the directory.
RmtreeScan(r) ==
    /\ pc[r] = "rmtree_scan"
    /\ IF tempDir
       THEN /\ listing' = Set(r, listing, tempFiles)
            /\ pc' = Set(r, pc, IF tempFiles = {} THEN "rmtree_rmdir"
                                ELSE "rmtree_unlink")
            /\ UNCHANGED <<exc, bgtasks>>
       ELSE /\ TaskRaises(r, "FileNotFoundError")
            /\ listing' = listing
    /\ UNCHANGED <<storage, data, text, status, delCount>>

\* shutil.rmtree: unlink one listed entry (the order is the directory's).
RmtreeUnlink(r) ==
    /\ pc[r] = "rmtree_unlink"
    /\ \E f \in listing[r] :
        IF f \in tempFiles
        THEN /\ tempFiles' = tempFiles \ {f}
             /\ listing' = Set(r, listing, listing[r] \ {f})
             /\ pc' = Set(r, pc, IF listing[r] = {f} THEN "rmtree_rmdir"
                                 ELSE "rmtree_unlink")
             /\ UNCHANGED <<exc, bgtasks>>
        ELSE /\ TaskRaises(r, "FileNotFoundError")
             /\ listing' = Set(r, listing, {})
             /\ tempFiles' = tempFiles
    /\ UNCHANGED <<tempDir, outDir, outFiles, data, text, status, delCount>>

\* shutil.rmtree: os.rmdir("temp") raises when the directory is gone or has
\* got a new entry.
RmtreeRmdir(r) ==
    /\ pc[r] = "rmtree_rmdir"
    /\ IF tempDir /\ tempFiles = {}
       THEN /\ tempDir' = FALSE
            /\ pc' = Set(r, pc, "makedirs")
            /\ UNCHANGED <<exc, bgtasks>>
       ELSE /\ TaskRaises(r, IF tempDir THEN "OSError" ELSE "FileNotFoundError")
            /\ tempDir' = tempDir
    /\ UNCHANGED <<tempFiles, outDir, outFiles, data, text, listing, status,
                   delCount>>

\* clearTempFolder line 24: os.makedirs("temp", exist_ok=True)
Makedirs(r) ==
    /\ pc[r] = "makedirs"
    /\ tempDir' = TRUE
    /\ TaskReturns(r)
    /\ UNCHANGED <<tempFiles, outDir, outFiles, data, text, listing, status,
                   delCount>>

\* ---- specifications ----------------------------------------------------
Endpoint(r) ==
    \/ Download(r)
    \/ StageWrite(r)
    \/ StageRead(r)
    \/ SynthBegin(r)
    \/ SynthOk(r)
    \/ SynthRaise(r)
    \/ Propagate(r)
    \/ Respond(r)

Background(r) ==
    \/ RunDeleteFile(r)
    \/ ClearExists(r)
    \/ RmtreeScan(r)
    \/ RmtreeUnlink(r)
    \/ RmtreeRmdir(r)
    \/ Makedirs(r)

Next == \E r \in Reqs : Receive(r) \/ Endpoint(r) \/ Background(r)

Spec == Init /\ [][Next]_vars

SpecWarm == InitWarm /\ [][Next]_vars

\* Worker threads are scheduled fairly: a thread that can take a step takes
\* it.  Arrivals (Receive) are the environment's and are not forced.
Fairness == \A r \in Reqs : WF_vars(Endpoint(r)) /\ WF_vars(Background(r))

FairSpec == Init /\ [][Next]_vars /\ Fairness

\* ---- delete_file on its own ---------------------------------------------
\* Any storage state: "temp" present or not, any files in the directories.
InitDelete ==
    /\ tempDir \in BOOLEAN
    /\ tempFiles \in (IF tempDir THEN SUBSET Reqs ELSE {{}})
    /\ outDir = TRUE
    /\ outFiles \in SUBSET Reqs
    /\ InitLocals

\* Thread r calls delete_file on path p of "output": a path that holds a
\* file, one already deleted, or one that never existed.
CallDeleteFile(r, p) ==
    /\ delCount[p] < MaxDelete
    /\ LET res == delete_file(p, outFiles) IN
        /\ outFiles' = res.files
        /\ exc' = Set(r, exc, res.err)
    /\ delCount' = [delCount EXCEPT ![p] = @ + 1]
    /\ UNCHANGED <<tempDir, tempFiles, outDir, pc, data, text, bgtasks,
                   listing, status>>

NextDelete == \E r \in Reqs, p \in Paths : CallDeleteFile(r, p)

SpecDelete == InitDelete /\ [][NextDelete]_vars

TypeOK ==
    /\ tempDir \in BOOLEAN /\ outDir \in BOOLEAN
    /\ tempFiles \subseteq Reqs /\ outFiles \subseteq Reqs
    /\ (~tempDir => tempFiles = {})
    /\ \A r \in Reqs : status[r] \in {"pending", "200", "500"}

\* ---- state predicates used by the claims -------------------------------
\* The request has reached a terminal state (Completed or Failed).
Terminal(r) == status[r] # "pending"

IsImage(r) == data[r].type = "image"

\* An image request whose download and description succeed when it runs
\* alone with "temp" present.
GoodImage(r) == IsImage(r) /\ data[r].imageUrl = "ok"

\* ---- C1 ----------------------------------------------------------------
\* C1: no step deletes a staging or output artifact whose owner has not yet
\* reached a terminal state (such a step can only be another request's
\* cleanup task); in particular a staging artifact stays readable from its
\* write until its owner's own cleanup.
C1_NoCrossRequestDeletion ==
    [][\A r \in Reqs :
        ~Terminal(r) =>
            /\ (r \in tempFiles => r \in tempFiles')
            /\ (r \in outFiles => r \in outFiles')]_vars

\* ---- C2 ----------------------------------------------------------------
\* C2: every image request that succeeds when run alone finds "temp" when it
\* writes its staging file, finds the file when it reads it, and goes to
\* synthesis with its caption, never with the fallback string.
C2_AllCaptioned ==
    \A r \in Reqs :
        GoodImage(r) =>
            /\ (pc[r] = "stage_write" => tempDir)
            /\ (pc[r] = "stage_read" => r \in tempFiles)
            /\ (pc[r] = "synth" => text[r] = Caption)

\* ---- C3 ----------------------------------------------------------------
\* C3: a request's output file is on storage from the moment it is written
\* until its response has been sent; the read for the response never finds
\* it missing.
C3_OutputAliveUntilDelivered ==
    \A r \in Reqs :
        /\ (pc[r] = "respond" => r \in outFiles)
        /\ exc[r] # "RuntimeError"
        /\ (status[r] = "pending" /\ delCount[r] = 0 /\ bgtasks[r] # <<>>
                => r \in outFiles)

\* Another request's cleanup has run to its end while r's output file was
\* written and not yet sent.
C3_Witness ==
    \E r, q \in Reqs :
        /\ r # q
        /\ pc[r] = "respond" /\ r \in outFiles
        /\ pc[q] = "done" /\ delCount[q] = 1

\* ---- C4 ----------------------------------------------------------------
\* C4: under fair scheduling, once a request's response has been sent every
\* task it scheduled is eventually run (none is left in its queue) and its
\* output file is eventually gone from storage.
C4_OutputEventuallyReclaimed ==
    \A r \in Reqs :
        (status[r] = "200") ~>
            (pc[r] = "done" /\ bgtasks[r] = <<>> /\ r \notin outFiles)

\* A completed request whose tasks have all run and whose output is gone.
C4_Witness ==
    \E r \in Reqs :
        /\ status[r] = "200" /\ pc[r] = "done" /\ bgtasks[r] = <<>>
        /\ delCount[r] = 1 /\ r \notin outFiles

\* ---- C5 ----------------------------------------------------------------
\* The step of getCaption that request r is about to take raises: the
\* download fails, "temp" is missing at the staging write, the staging file
\* is gone at the read, or the bytes cannot be decoded or described.
DescFails(r) ==
    \/ pc[r] = "download" /\ data[r].imageUrl = "unreachable"
    \/ pc[r] = "stage_write" /\ ~tempDir
    \/ pc[r] = "stage_read" /\ (r \notin tempFiles \/ data[r].imageUrl # "ok")

\* Every failing description step leaves the request unanswered, with the
\* fallback string as its text, at synthesis.
FallbackOnDescFailure ==
    \A r \in Reqs :
        DescFails(r) /\ pc'[r] # pc[r] =>
            /\ text'[r] = Fallback
            /\ pc'[r] = "synth"
            /\ status'[r] = "pending" /\ exc'[r] = "none"

\* C5 as stated: a failed description step gives the fallback text, and a
\* request speaking the fallback always gets its audio and status 200: it
\* leaves synthesis only with its output written, and is then answered 200.
C5_FallbackAlwaysCompletes ==
    [][/\ FallbackOnDescFailure
       /\ \A r \in Reqs :
            /\ (pc[r] = "synth" /\ text[r] = Fallback /\ pc'[r] # pc[r]
                    => pc'[r] = "tts" /\ text'[r] = Fallback)
            /\ (pc[r] = "tts" /\ text[r] = Fallback /\ pc'[r] # pc[r]
                    => pc'[r] = "respond" /\ r \in outFiles')
            /\ (pc[r] = "respond" /\ pc'[r] # pc[r] => status'[r] = "200")
      ]_vars

\* C5 amended: a failed description step gives the fallback text and the
\* request goes on to synthesis; when synthesis of the fallback returns, the
\* output is written and the request is answered 200 with it; when synthesis
\* raises, the request fails with that synthesis error.
C5_FallbackThenSynthesis ==
    [][/\ FallbackOnDescFailure
       /\ \A r \in Reqs :
            /\ (pc[r] = "synth" /\ text[r] = Fallback /\ pc'[r] # pc[r]
                    => pc'[r] = "tts" /\ text'[r] = Fallback)
            /\ (pc[r] = "tts" /\ text[r] = Fallback /\ pc'[r] # pc[r]
                    => \/ pc'[r] = "respond" /\ r \in outFiles'
                       \/ pc'[r] = "raised" /\ exc'[r] = "SynthesisError")
            /\ (pc[r] = "respond" /\ pc'[r] # pc[r] => status'[r] = "200")
      ]_vars

\* An image request with a good URL is at synthesis with the fallback text:
\* its staging write or its staging read failed.
C5_Witness ==
    \E r \in Reqs :
        /\ GoodImage(r) /\ pc[r] = "synth" /\ text[r] = Fallback
        /\ status[r] = "pending"

\* ---- C6 ----------------------------------------------------------------
\* C6: when textToWav has raised, the request's only step is to fail: it is
\* answered 500, gets no audio, schedules no task, its text is not replaced
\* and synthesis is not run again; the 500 is final.
C6_SynthesisFailureIsTerminal ==
    [][\A r \in Reqs :
        /\ (exc[r] = "SynthesisError" /\ pc[r] = "raised" /\ pc'[r] # pc[r]
                => /\ pc'[r] = "failed"
                   /\ status'[r] = "500"
                   /\ exc'[r] = "SynthesisError"
                   /\ bgtasks'[r] = <<>>)
        /\ (exc[r] = "SynthesisError" /\ pc[r] = "failed"
                => /\ pc'[r] = "failed" /\ status'[r] = "500"
                   /\ exc'[r] = "SynthesisError" /\ text'[r] = NoText)
      ]_vars

\* Synthesis failed for an image request and for a text request; both were
\* answered 500.
C6_Witness ==
    \E r, q \in Reqs :
        /\ IsImage(r) /\ ~IsImage(q)
        /\ \A x \in {r, q} :
            /\ exc[x] = "SynthesisError" /\ pc[x] = "failed"
            /\ status[x] = "500"

\* ---- C7 ----------------------------------------------------------------
\* C7: a request that is not an image request never runs a step of
\* getCaption and never owns a file in "temp"; every file that appears in
\* "temp" is written by an image request at its staging write.
C7_TextNeverStages ==
    [][\A r \in Reqs :
        /\ (pc'[r] \in {"download", "stage_write", "stage_read"}
                => data'[r].type = "image")
        /\ (r \notin tempFiles /\ r \in tempFiles'
                => data[r].type = "image" /\ pc[r] = "stage_write")
        /\ (data'[r].type \in {"text", "other"} => r \notin tempFiles')
      ]_vars

\* A text request has completed its whole lifecycle while "temp" holds a
\* file of an image request.
C7_Witness ==
    \E r, q \in Reqs :
        /\ data[r].type = "text" /\ pc[r] = "done" /\ status[r] = "200"
        /\ IsImage(q) /\ q \in tempFiles

\* ---- C8 ----------------------------------------------------------------
\* C8: a call of delete_file on path p raises nothing, removes p and no
\* other file of "output", and touches nothing in "temp"; a call on a path
\* already deleted or never created leaves storage exactly as it was.
C8_DeleteIdempotent ==
    [][\A p \in Paths :
        delCount'[p] = delCount[p] + 1 =>
            /\ outFiles' = outFiles \ {p}
            /\ p \notin outFiles'
            /\ <<tempDir, tempFiles, outDir>>' = <<tempDir, tempFiles, outDir>>
            /\ \A r \in Reqs : exc'[r] = "none"
            /\ (delCount[p] >= 1 \/ p = NeverCreated => outFiles' = outFiles)
      ]_vars

\* delete_file has run twice on a path that held a file, and on a path that
\* never existed, with another file still in "output".
C8_Witness ==
    \E p \in Reqs :
        /\ delCount[p] = 2
        /\ delCount[NeverCreated] >= 1
        /\ outFiles # {}

\* ---- C9 ----------------------------------------------------------------
\* C9: once all cleanup tasks of a completed image request have run, its
\* staging file is no longer in "temp".
C9_StagingGoneAfterOwnCleanup ==
    \A r \in Reqs :
        IsImage(r) /\ status[r] = "200" /\ pc[r] = "done" /\ bgtasks[r] = <<>>
            => r \notin tempFiles

\* ---- C10 ---------------------------------------------------------------
\* C10: no exception leaves a cleanup task (a request answered 200 has no
\* exception in its thread, whatever the storage state its tasks met), and
\* no step changes the response a request has already been given.
C10_CleanupNeverRaises ==
    [][\A r \in Reqs :
        /\ (status'[r] = "200" => exc'[r] = "none")
        /\ (Terminal(r) => status'[r] = status[r])
      ]_vars

\* ---- C11 ---------------------------------------------------------------
\* The body is malformed: its type is neither "image" nor "text", or it is
\* an image request without a URL, or a text request without a text.
Malformed(d) ==
    \/ d.type \notin {"image", "text"}
    \/ d.type = "image" /\ d.imageUrl = NoKey
    \/ d.type = "text" /\ d.text = NoKey

\* C11: a request with a malformed body is rejected with an error on
\* arrival (the claim names the error BadRequest; any error is accepted
\* here): it never gets a text (a default one included), never reaches
\* getCaption or textToWav and owns no file.
C11_MalformedRejected ==
    [][\A r \in Reqs :
        pc[r] = "idle" /\ pc'[r] # "idle" /\ Malformed(data'[r]) =>
            /\ pc'[r] = "raised"
            /\ exc'[r] # "none"
            /\ text'[r] = NoText
            /\ r \notin tempFiles' /\ r \notin outFiles'
      ]_vars

\* ---- C12 ---------------------------------------------------------------
\* The step is one of request r's thread.
StepOf(r) ==
    \/ pc'[r] # pc[r]
    \/ listing'[r] # listing[r]
    \/ bgtasks'[r] # bgtasks[r]

\* C12: every file a cleanup task of request r removes, from "temp" or from
\* "output", is r's own, whether or not the other owners are in flight.
C12_CleanupDeletesOwnOnly ==
    [][\A r \in Reqs :
        StepOf(r) /\ status[r] = "200" =>
            /\ tempFiles \ tempFiles' \subseteq {r}
            /\ outFiles \ outFiles' \subseteq {r}
      ]_vars

\* ---- C13 ---------------------------------------------------------------
\* C13: a text request schedules the deletion of its output file and nothing
\* else, and no step of it, its cleanup included, changes "temp".
C13_TextLeavesStagingAlone ==
    [][\A r \in Reqs :
        data'[r].type = "text" =>
            /\ (\A i \in 1..Len(bgtasks'[r]) : bgtasks'[r][i] = "delete_file")
            /\ (StepOf(r) => tempFiles' = tempFiles /\ tempDir' = tempDir)
      ]_vars

\* ---- C14 ---------------------------------------------------------------
\* C14: at most one thread is inside textToWav at any time.
C14_SynthesisSerialized ==
    Cardinality({r \in Reqs : pc[r] = "tts"}) <= 1

\* ---- C15 ---------------------------------------------------------------
\* C15: whenever an image request is about to open its staging file for
\* writing, "temp" exists.
C15_StagingDirPresentAtWrite ==
    \A r \in Reqs : IsImage(r) /\ pc[r] = "stage_write" => tempDir

\* ---- C16 ---------------------------------------------------------------
\* Request r's thread has ended by a synthesis failure and no other request
\* has arrived: no thread has a step left.
FailedAlone(r) ==
    /\ pc[r] = "failed" /\ exc[r] = "SynthesisError"
    /\ \A q \in Reqs \ {r} : pc[q] = "idle"

\* Request r wrote its staging file (with no other request around, nothing
\* can have removed it since).
WroteStaging(r) == IsImage(r) /\ r \in tempFiles

\* C16: when synthesis has failed for an image request that had written its
\* staging file, and no other request arrives, the files it created in
\* "temp" and in "output" are gone once its thread has no step left.
C16_FailedRequestReclaimed ==
    \A r \in Reqs :
        FailedAlone(r) /\ WroteStaging(r)
            => r \notin tempFiles /\ r \notin outFiles

====
